---- MODULE Spec2Model ----
(***************************************************************************)
(* Model of DomainExpirationMonitor (src/monitor.py).                      *)
(*                                                                         *)
(* Time is counted in ticks, TicksPerDay ticks to a day.  A datetime is    *)
(* the one-element tuple <<t>>, Python's None is the empty tuple, and the  *)
(* ISO string written by datetime.isoformat() is the tagged tuple          *)
(* <<"iso", t>>.  A domain name is a tuple of characters.                  *)
(***************************************************************************)
EXTENDS Integers, Sequences, FiniteSets, TLC

VARIABLES
    domains,        \* self.domains['domains']: insertion-ordered dict
    file,           \* content of domains.json, or NoFile
    alert_days,     \* self.alert_days
    slack_webhook,  \* whether SLACK_WEBHOOK_URL is set
    now,            \* the wall clock read by datetime.now()
    pc,             \* "idle", or "checking" inside check_all_domains
    todo,           \* keys the for-loop of check_all_domains has still to visit
    log,            \* what the operation in progress (or last completed) did
    fired,          \* per key: alert ids handed to the notifier since the record was created
    watch           \* the frame of run_continuous: where it stands, and its schedule

vars == <<domains, file, alert_days, slack_webhook, now, pc, todo, log, fired, watch>>

----------------------------------------------------------------------------
(* Bounds of the model *)

MaxNow == 1
TicksPerDay == 2

None == <<>>
\* domains.json: whether it exists, whether its text is JSON and, if so, the
\* members of its JSON object
NoFile == [exists |-> FALSE, json |-> FALSE, members |-> <<>>]
\* A file whose text is not JSON
Malformed == [exists |-> TRUE, json |-> FALSE, members |-> <<>>]

\* Raw command-line arguments of --add / --remove.
RawNames ==
    { <<"a">>, <<" ", "A", " ">>, <<"B">> }

\* The default of ALERT_DAYS_BEFORE
DefaultAlertDays == <<30, 14, 7, 1>>

----------------------------------------------------------------------------
(* Strings *)

IsSpace(c) == c = " "

Lower(c) ==
    CASE c = "A" -> "a"
      [] c = "B" -> "b"
      [] OTHER -> c

\* str.lower()
LowerStr(s) == [i \in 1..Len(s) |-> Lower(s[i])]

RECURSIVE LStrip(_)
LStrip(s) ==
    IF s # <<>> /\ IsSpace(Head(s)) THEN LStrip(Tail(s)) ELSE s

RECURSIVE RStrip(_)
RStrip(s) ==
    IF s # <<>> /\ IsSpace(s[Len(s)]) THEN RStrip(SubSeq(s, 1, Len(s) - 1)) ELSE s

\* str.strip()
Strip(s) == RStrip(LStrip(s))

\* Mutant: domain.lower() without strip()
Normalize_NoStrip(domain) == LowerStr(domain)

\* domain.lower().strip()
Normalize(domain) == Strip(LowerStr(domain))

----------------------------------------------------------------------------
(* Datetimes *)

Datetime(t) == <<t>>

\* datetime.isoformat() and datetime.fromisoformat()
IsoFormat(dt) == <<"iso", dt[1]>>
FromIsoFormat(s) == <<s[2]>>

\* (expiration - now).days: timedelta normalises to a floored day count
DaysBetween(expiration, t) == (expiration[1] - t[1]) \div TicksPerDay

\* A whole number of days after tick 0
Day(d) == Datetime(d * TicksPerDay)

\* What whois.whois(domain) may do: raise, give a record whose expiration_date
\* is a datetime, a list of datetimes, or something that is no datetime.
WhoisAnswers ==
    { [kind |-> "error"],
      [kind |-> "text"],
      [kind |-> "date", at |-> Day(0)],
      [kind |-> "date", at |-> Day(30)],
      [kind |-> "dates", at |-> <<Day(7), Day(30)>>] }

\* An exception leaving a method
Raised == <<"raised", "raised">>

\* Mutant: no try/except around whois.whois
get_expiration_date_Raising(w) ==
    IF w.kind = "error" THEN Raised
    ELSE IF w.kind = "dates" THEN w.at[1]
    ELSE IF w.kind = "date" THEN w.at
    ELSE None

\* get_expiration_date: None on an exception and on anything but a datetime,
\* the first element of a list.
get_expiration_date(w) ==
    IF w.kind = "error" THEN None
    ELSE IF w.kind = "dates" THEN w.at[1]
    ELSE IF w.kind = "date" THEN w.at
    ELSE None

----------------------------------------------------------------------------
(* The store *)

EmptyStore == [keys |-> <<>>, data |-> <<>>]

Has(store, key) == key \in DOMAIN store.data

\* dict[key] = value, appending the key when it is new
Put(store, key, value) ==
    [keys |-> IF Has(store, key) THEN store.keys ELSE Append(store.keys, key),
     data |-> [k \in DOMAIN store.data \cup {key} |->
                 IF k = key THEN value ELSE store.data[k]]]

RECURSIVE Without(_, _)
Without(seq, x) ==
    IF seq = <<>> THEN <<>>
    ELSE IF Head(seq) = x THEN Without(Tail(seq), x)
    ELSE <<Head(seq)>> \o Without(Tail(seq), x)

\* del dict[key]
Del(store, key) ==
    [keys |-> Without(store.keys, key),
     data |-> [k \in DOMAIN store.data \ {key} |-> store.data[k]]]

\* JSON values: a string, null, an array of strings
JsonString(s) == <<"string", s>>
JsonNull == <<"null">>
JsonArray(list) == <<"array", [i \in 1..Len(list) |-> JsonString(list[i])]>>

\* json.dump of one record of the store
RecordToJson(r) ==
    [added        |-> JsonString(r.added),
     expiration   |-> IF r.expiration = None THEN JsonNull ELSE JsonString(r.expiration),
     last_checked |-> JsonString(r.last_checked),
     alerts_sent  |-> JsonArray(r.alerts_sent)]

\* json.load of one JSON value
FromJson(j) ==
    IF j[1] = "null" THEN None
    ELSE IF j[1] = "string" THEN j[2]
    ELSE [i \in 1..Len(j[2]) |-> j[2][i][2]]

\* json.load of one record
RecordFromJson(o) == [f \in DOMAIN o |-> FromJson(o[f])]

\* Mutant: only the domains with a known expiration are written
save_domains_SkipUnknown(store) ==
    LET known == SelectSeq(store.keys, LAMBDA k : store.data[k].expiration # None) IN
    [exists |-> TRUE, json |-> TRUE,
     members |-> [i \in 1..Len(known) |-> <<known[i], RecordToJson(store.data[known[i]])>>]]

\* json.dump: the object's members in dict order
save_domains(store) ==
    [exists |-> TRUE, json |-> TRUE,
     members |-> [i \in 1..Len(store.keys) |->
                    <<store.keys[i], RecordToJson(store.data[store.keys[i]])>>]]

\* json.load raising json.JSONDecodeError
LoadRaised == [raised |-> "JSONDecodeError"]

\* Mutant: a file that does not parse is taken for an empty store
load_domains_Lenient(f) ==
    IF ~f.exists \/ ~f.json THEN EmptyStore
    ELSE LET m == f.members IN
         [keys |-> [i \in 1..Len(m) |-> m[i][1]],
          data |-> [k \in {m[i][1] : i \in 1..Len(m)} |->
                      RecordFromJson(
                        m[CHOOSE i \in 1..Len(m) : m[i][1] = k /\
                            \A j \in 1..Len(m) : m[j][1] = k => j <= i][2])]]

\* json.load, or the empty store when the file does not exist
load_domains(f) ==
    IF ~f.exists THEN EmptyStore
    ELSE IF ~f.json THEN LoadRaised
    ELSE LET m == f.members IN
         [keys |-> [i \in 1..Len(m) |-> m[i][1]],
          data |-> [k \in {m[i][1] : i \in 1..Len(m)} |->
                      RecordFromJson(
                        m[CHOOSE i \in 1..Len(m) : m[i][1] = k /\
                            \A j \in 1..Len(m) : m[j][1] = k => j <= i][2])]]

----------------------------------------------------------------------------
(* check_domain *)

\* Mutant: the critical band closed at 7 (days_until <= 7)
Status_Inclusive(days_until) ==
    IF days_until < 0 THEN "expired"
    ELSE IF days_until <= 7 THEN "critical"
    ELSE IF days_until < 30 THEN "warning"
    ELSE "ok"

\* The if/elif chain on days_until
Status(days_until) ==
    IF days_until < 0 THEN "expired"
    ELSE IF days_until < 7 THEN "critical"
    ELSE IF days_until < 30 THEN "warning"
    ELSE "ok"

\* Mutant: the expiration is assigned whatever the lookup returned
CheckedRecord_Overwrite(domain_data, expiration, t) ==
    [domain_data EXCEPT
        !.expiration = IF expiration # None THEN IsoFormat(expiration) ELSE None,
        !.last_checked = IsoFormat(t)]

\* Mutant: a later expiration (a renewal) clears alerts_sent
CheckedRecord_ResetOnRenewal(domain_data, expiration, t) ==
    [domain_data EXCEPT
        !.expiration = IF expiration # None THEN IsoFormat(expiration) ELSE @,
        !.last_checked = IsoFormat(t),
        !.alerts_sent = IF /\ expiration # None
                           /\ domain_data.expiration # None
                           /\ IsoFormat(expiration)[2] > domain_data.expiration[2]
                        THEN <<>> ELSE @]

\* Mutant: check_domain stamps added as well
CheckedRecord_TouchAdded(domain_data, expiration, t) ==
    [domain_data EXCEPT
        !.expiration = IF expiration # None THEN IsoFormat(expiration) ELSE @,
        !.last_checked = IsoFormat(t),
        !.added = IsoFormat(t)]

\* The record of the domain after check_domain: the expiration is overwritten
\* only when the lookup answered, last_checked always.
CheckedRecord(domain_data, expiration, t) ==
    [domain_data EXCEPT
        !.expiration = IF expiration # None THEN IsoFormat(expiration) ELSE @,
        !.last_checked = IsoFormat(t)]

\* The dict check_domain returns; days_until_expiration is None or <<days>>.
CheckResult(domain, expiration, t) ==
    IF expiration = None
    THEN [domain |-> domain, status |-> "unknown", expiration |-> None,
          days_until_expiration |-> None]
    ELSE [domain |-> domain, status |-> Status(DaysBetween(expiration, t)),
          expiration |-> expiration,
          days_until_expiration |-> <<DaysBetween(expiration, t)>>]

----------------------------------------------------------------------------
(* The alert loop of check_all_domains *)

\* f"{alert_days}_days"
AlertKey(t) == ToString(t) \o "_days"

InList(x, list) == \E i \in 1..Len(list) : list[i] = x

\* Mutant: no test of alert_key against alerts_sent
RECURSIVE AlertLoop_NoDedup(_, _, _)
AlertLoop_NoDedup(thresholds, days_until, alerts_sent) ==
    IF thresholds = <<>> THEN <<>>
    ELSE IF days_until <= Head(thresholds) /\ days_until > 0
         THEN <<AlertKey(Head(thresholds))>>
         ELSE AlertLoop_NoDedup(Tail(thresholds), days_until, alerts_sent)

\* Mutant: no break after an alert
RECURSIVE AlertLoop_NoBreak(_, _, _)
AlertLoop_NoBreak(thresholds, days_until, alerts_sent) ==
    IF thresholds = <<>> THEN <<>>
    ELSE IF /\ days_until <= Head(thresholds)
            /\ days_until > 0
            /\ ~InList(AlertKey(Head(thresholds)), alerts_sent)
         THEN <<AlertKey(Head(thresholds))>>
                \o AlertLoop_NoBreak(Tail(thresholds), days_until,
                                     Append(alerts_sent, AlertKey(Head(thresholds))))
         ELSE AlertLoop_NoBreak(Tail(thresholds), days_until, alerts_sent)

\* Mutant: days_until < alert_days
RECURSIVE AlertLoop_Strict(_, _, _)
AlertLoop_Strict(thresholds, days_until, alerts_sent) ==
    IF thresholds = <<>> THEN <<>>
    ELSE IF /\ days_until < Head(thresholds)
            /\ days_until > 0
            /\ ~InList(AlertKey(Head(thresholds)), alerts_sent)
         THEN <<AlertKey(Head(thresholds))>>
         ELSE AlertLoop_Strict(Tail(thresholds), days_until, alerts_sent)

\* Mutant: days_until >= 0 in place of days_until > 0
RECURSIVE AlertLoop_FromZero(_, _, _)
AlertLoop_FromZero(thresholds, days_until, alerts_sent) ==
    IF thresholds = <<>> THEN <<>>
    ELSE IF /\ days_until <= Head(thresholds)
            /\ days_until >= 0
            /\ ~InList(AlertKey(Head(thresholds)), alerts_sent)
         THEN <<AlertKey(Head(thresholds))>>
         ELSE AlertLoop_FromZero(Tail(thresholds), days_until, alerts_sent)

\* Mutant: the id is built from days_until
RECURSIVE AlertLoop_DaysKey(_, _, _)
AlertLoop_DaysKey(thresholds, days_until, alerts_sent) ==
    IF thresholds = <<>> THEN <<>>
    ELSE IF /\ days_until <= Head(thresholds)
            /\ days_until > 0
            /\ ~InList(AlertKey(days_until), alerts_sent)
         THEN <<AlertKey(days_until)>>
         ELSE AlertLoop_DaysKey(Tail(thresholds), days_until, alerts_sent)

\* Mutant: for alert_days in reversed(self.alert_days)
RECURSIVE AlertLoop_Tightest(_, _, _)
AlertLoop_Tightest(thresholds, days_until, alerts_sent) ==
    IF thresholds = <<>> THEN <<>>
    ELSE LET later == AlertLoop_Tightest(Tail(thresholds), days_until, alerts_sent) IN
         IF later # <<>> THEN later
         ELSE IF /\ days_until <= Head(thresholds)
                 /\ days_until > 0
                 /\ ~InList(AlertKey(Head(thresholds)), alerts_sent)
              THEN <<AlertKey(Head(thresholds))>>
              ELSE <<>>

\* for alert_days in self.alert_days: ... break
\* The alert ids the loop fires, in order, given the list it started with.
RECURSIVE AlertLoop(_, _, _)
AlertLoop(thresholds, days_until, alerts_sent) ==
    IF thresholds = <<>> THEN <<>>
    ELSE IF /\ days_until <= Head(thresholds)
            /\ days_until > 0
            /\ ~InList(AlertKey(Head(thresholds)), alerts_sent)
         THEN <<AlertKey(Head(thresholds))>>
         ELSE AlertLoop(Tail(thresholds), days_until, alerts_sent)

\* send_slack_alert: returns at once without a webhook; otherwise posts, and
\* any exception is caught and printed.
SlackOutcomes(webhook) ==
    IF webhook THEN {"posted", "error"} ELSE {"skipped"}

----------------------------------------------------------------------------
(* History of the operation in progress *)

\* op: the operation; done: it has returned; aborted: it ended by an exception;
\* snapshot: list(keys()) taken by check_all_domains; lookups: what each call of
\* get_expiration_date returned; writes: calls of save_domains; sent: calls of
\* send_slack_alert; reported: the results of check_domain.
NewLog(op) ==
    [op |-> op, done |-> FALSE, aborted |-> FALSE, snapshot |-> <<>>,
     lookups |-> <<>>, writes |-> 0, sent |-> <<>>, reported |-> <<>>]

----------------------------------------------------------------------------
\* No run_continuous frame: the process was started with another command.
\* schedule: whether "import schedule" succeeded (monitor.py:17-20).
WatchOff(schedule) ==
    [at |-> "off", schedule |-> schedule, interval |-> 0, wait |-> 0,
     passes |-> 0, slept |-> FALSE]

(* Initial state: __init__ with no domains.json *)

Init ==
    /\ domains = load_domains(NoFile)
    /\ file = NoFile
    /\ alert_days = DefaultAlertDays
    /\ slack_webhook \in BOOLEAN
    /\ now = 0
    /\ pc = "idle"
    /\ todo = <<>>
    /\ log = [NewLog("init") EXCEPT !.done = TRUE]
    /\ fired = <<>>
    /\ watch = WatchOff(TRUE)

----------------------------------------------------------------------------
(* Actions *)

\* The wall clock advances.
Tick ==
    /\ now < MaxNow
    /\ now' = now + 1
    /\ UNCHANGED <<domains, file, alert_days, slack_webhook, pc, todo, log, fired>>

\* An exception leaves the operation: main() prints it and exits with status 1,
\* so the store in memory is gone and the next process loads the file.
Abort(lg) ==
    /\ pc' = "idle"
    /\ todo' = <<>>
    /\ domains' = load_domains(file)
    /\ log' = [lg EXCEPT !.done = TRUE, !.aborted = TRUE]
    /\ UNCHANGED file

\* The record add_domain creates
NewRecord(expiration, t) ==
    [added |-> IsoFormat(t),
     expiration |-> IF expiration # None THEN IsoFormat(expiration) ELSE None,
     last_checked |-> IsoFormat(t),
     alerts_sent |-> <<>>]

WithKey(f, key, value) ==
    [k \in DOMAIN f \cup {key} |-> IF k = key THEN value ELSE f[k]]

WithoutKey(f, key) == [k \in DOMAIN f \ {key} |-> f[k]]

\* Mutant: no early return for a domain already monitored
add_domain_Refresh(raw) ==
    LET domain == Normalize(raw) IN
    /\ pc = "idle"
    /\ \E w \in WhoisAnswers :
         LET expiration == get_expiration_date(w)
             lg == [NewLog("add_domain") EXCEPT !.lookups = <<expiration>>]
         IN
         /\ domains' = Put(domains, domain, NewRecord(expiration, Datetime(now)))
         /\ file' = save_domains(domains')
         /\ fired' = WithKey(fired, domain, <<>>)
         /\ log' = [lg EXCEPT !.done = TRUE, !.writes = 1]
         /\ UNCHANGED <<pc, todo>>
    /\ UNCHANGED <<alert_days, slack_webhook, now>>

add_domain(raw) ==
    LET domain == Normalize(raw) IN
    /\ pc = "idle"
    /\ IF Has(domains, domain)
       THEN /\ log' = [NewLog("add_domain") EXCEPT !.done = TRUE]
            /\ UNCHANGED <<domains, file, fired, pc, todo>>
       ELSE \E w \in WhoisAnswers :
            LET expiration == get_expiration_date(w)
                lg == [NewLog("add_domain") EXCEPT !.lookups = <<expiration>>]
            IN
            IF expiration = Raised
            THEN Abort(lg) /\ UNCHANGED fired
            ELSE /\ domains' = Put(domains, domain, NewRecord(expiration, Datetime(now)))
                 /\ file' = save_domains(domains')
                 /\ fired' = WithKey(fired, domain, <<>>)
                 /\ log' = [lg EXCEPT !.done = TRUE, !.writes = 1]
                 /\ UNCHANGED <<pc, todo>>
    /\ UNCHANGED <<alert_days, slack_webhook, now>>

\* Mutant: remove_domain without save_domains()
remove_domain_NoSave(raw) ==
    LET domain == Normalize(raw) IN
    /\ pc = "idle"
    /\ IF Has(domains, domain)
       THEN /\ domains' = Del(domains, domain)
            /\ fired' = WithoutKey(fired, domain)
            /\ log' = [NewLog("remove_domain") EXCEPT !.done = TRUE]
            /\ UNCHANGED file
       ELSE /\ log' = [NewLog("remove_domain") EXCEPT !.done = TRUE]
            /\ UNCHANGED <<domains, file, fired>>
    /\ UNCHANGED <<alert_days, slack_webhook, now, pc, todo>>

remove_domain(raw) ==
    LET domain == Normalize(raw) IN
    /\ pc = "idle"
    /\ IF Has(domains, domain)
       THEN /\ domains' = Del(domains, domain)
            /\ file' = save_domains(domains')
            /\ fired' = WithoutKey(fired, domain)
            /\ log' = [NewLog("remove_domain") EXCEPT !.done = TRUE, !.writes = 1]
       ELSE /\ log' = [NewLog("remove_domain") EXCEPT !.done = TRUE]
            /\ UNCHANGED <<domains, file, fired>>
    /\ UNCHANGED <<alert_days, slack_webhook, now, pc, todo>>

\* list_domains only prints.
list_domains ==
    /\ pc = "idle"
    /\ log' = [NewLog("list_domains") EXCEPT !.done = TRUE]
    /\ UNCHANGED <<domains, file, alert_days, slack_webhook, now, pc, todo, fired>>

\* check_all_domains, up to the for-loop: returns at once on an empty store,
\* otherwise snapshots list(keys()).
check_all_domains_begin ==
    /\ pc = "idle"
    /\ IF domains.keys = <<>>
       THEN /\ log' = [NewLog("check_all_domains") EXCEPT !.done = TRUE]
            /\ UNCHANGED <<pc, todo>>
       ELSE /\ log' = [NewLog("check_all_domains") EXCEPT !.snapshot = domains.keys]
            /\ pc' = "checking"
            /\ todo' = domains.keys
    /\ UNCHANGED <<domains, file, alert_days, slack_webhook, now, fired>>

\* Mutant: save_domains() inside the loop body
EndOfIteration_SaveEach(rest, store, lg) ==
    /\ domains' = store
    /\ todo' = rest
    /\ file' = save_domains(store)
    /\ pc' = IF rest = <<>> THEN "idle" ELSE pc
    /\ log' = [lg EXCEPT !.writes = @ + 1, !.done = (rest = <<>>)]

\* The end of one loop iteration: save_domains() runs after the loop, that is
\* when the iteration was the last one.
EndOfIteration(rest, store, lg) ==
    /\ domains' = store
    /\ todo' = rest
    /\ IF rest = <<>>
       THEN /\ file' = save_domains(store)
            /\ pc' = "idle"
            /\ log' = [lg EXCEPT !.writes = @ + 1, !.done = TRUE]
       ELSE /\ UNCHANGED <<file, pc>>
            /\ log' = lg

\* Mutant: the id is recorded only when the alert was delivered
Recorded_OnSuccess(alerts_sent, keys, outcome) ==
    IF outcome = "posted" THEN alerts_sent \o keys ELSE alerts_sent

\* The alerts_sent list after the loop fired keys
Recorded(alerts_sent, keys, outcome) == alerts_sent \o keys

\* One iteration of the for-loop of check_all_domains, for the key at the head
\* of the snapshot; answers are what whois may answer.
check_all_domains_iteration(answers) ==
    /\ pc = "checking"
    /\ todo # <<>>
    /\ LET domain == Head(todo)
           old == domains.data[domain]
       IN
       \E w \in answers, outcome \in SlackOutcomes(slack_webhook) :
         LET t == Datetime(now)
             expiration == get_expiration_date(w)
             result == CheckResult(domain, expiration, t)
             checked == CheckedRecord(old, expiration, t)
             keys == IF expiration = None THEN <<>>
                     ELSE AlertLoop(alert_days, result.days_until_expiration[1],
                                    checked.alerts_sent)
             final == [checked EXCEPT !.alerts_sent = Recorded(@, keys, outcome)]
             notes == [i \in 1..Len(keys) |->
                         [domain |-> domain, alert_key |-> keys[i],
                          days_until |-> result.days_until_expiration[1],
                          outcome |-> outcome]]
             looked == [log EXCEPT !.lookups = Append(@, expiration)]
             lg == [looked EXCEPT !.sent = @ \o notes,
                                  !.reported = Append(@, result)]
         IN
         IF expiration = Raised
         THEN Abort(looked) /\ UNCHANGED fired
         ELSE IF keys # <<>> /\ outcome = "raised"
         THEN /\ Abort([lg EXCEPT !.sent = SubSeq(@, 1, Len(log.sent) + 1)])
              /\ fired' = [fired EXCEPT ![domain] = Append(@, keys[1])]
         ELSE /\ EndOfIteration(Tail(todo), Put(domains, domain, final), lg)
              /\ fired' = [fired EXCEPT ![domain] = @ \o keys]
    /\ UNCHANGED <<alert_days, slack_webhook, now>>

check_all_domains_step == check_all_domains_iteration(WhoisAnswers)

Next ==
    \/ Tick /\ UNCHANGED watch
    \/ \E raw \in RawNames : add_domain(raw) /\ UNCHANGED watch
    \/ \E raw \in RawNames : remove_domain(raw) /\ UNCHANGED watch
    \/ list_domains /\ UNCHANGED watch
    \/ check_all_domains_begin /\ UNCHANGED watch
    \/ check_all_domains_step /\ UNCHANGED watch

Spec == Init /\ [][Next]_vars

----------------------------------------------------------------------------
(* Type invariant *)

IsoTimes == { IsoFormat(Datetime(t)) : t \in 0..MaxNow }

TypeOK ==
    /\ pc \in {"idle", "checking"}
    /\ now \in 0..MaxNow
    /\ DOMAIN domains.data = {domains.keys[i] : i \in 1..Len(domains.keys)}
    /\ DOMAIN fired = DOMAIN domains.data
    /\ \A k \in DOMAIN domains.data :
         /\ domains.data[k].added \in IsoTimes
         /\ domains.data[k].last_checked \in IsoTimes
         /\ fired[k] = domains.data[k].alerts_sent
    /\ pc = "idle" => load_domains(file) = domains
    /\ ~log.aborted

----------------------------------------------------------------------------
(* The alert decision on its own: one stored domain whose alerts_sent list was
   left by earlier runs, any threshold list, and check passes only. *)

AlertThresholds == {1, 7, 14, 30}

ThresholdLists ==
    { DefaultAlertDays }
      \cup { <<a>> : a \in AlertThresholds }
      \cup { <<a, b>> : a \in AlertThresholds, b \in AlertThresholds }

SentLists ==
    { <<>> }
      \cup { <<AlertKey(a)>> : a \in AlertThresholds }
      \cup { <<AlertKey(p[1]), AlertKey(p[2])>> :
                 p \in { q \in AlertThresholds \X AlertThresholds : q[1] # q[2] } }

AlertAnswers ==
    { [kind |-> "error"] }
      \cup { [kind |-> "date", at |-> Day(d)] : d \in {-3, 0, 1, 5, 7, 8, 14, 15, 30, 31} }

InitAlert ==
    /\ \E sent \in SentLists :
         /\ domains = Put(EmptyStore, <<"a">>,
                          [NewRecord(None, Datetime(0)) EXCEPT !.alerts_sent = sent])
         /\ fired = [k \in {<<"a">>} |-> sent]
    /\ file = save_domains(domains)
    /\ alert_days \in ThresholdLists
    /\ slack_webhook = FALSE
    /\ now = 0
    /\ pc = "idle"
    /\ todo = <<>>
    /\ log = [NewLog("init") EXCEPT !.done = TRUE]
    /\ watch = WatchOff(TRUE)

NextAlert ==
    \/ check_all_domains_begin /\ UNCHANGED watch
    \/ check_all_domains_iteration(AlertAnswers) /\ UNCHANGED watch

SpecAlert == InitAlert /\ [][NextAlert]_vars

\* The same with a domain just added: nothing sent yet.
InitFresh ==
    /\ domains = Put(EmptyStore, <<"a">>, NewRecord(None, Datetime(0)))
    /\ fired = [k \in {<<"a">>} |-> <<>>]
    /\ file = save_domains(domains)
    /\ alert_days \in ThresholdLists
    /\ slack_webhook \in BOOLEAN
    /\ now = 0
    /\ pc = "idle"
    /\ todo = <<>>
    /\ log = [NewLog("add_domain") EXCEPT !.done = TRUE, !.lookups = <<None>>, !.writes = 1]
    /\ watch = WatchOff(TRUE)

SpecFresh == InitFresh /\ [][NextAlert]_vars

----------------------------------------------------------------------------
(* Processes: main() builds the monitor from whatever domains.json holds, runs
   the command and ends; the next process starts from the file. *)

\* DomainExpirationMonitor() inside main's try: a load that raises is caught by
\* main, which prints the error and exits with status 1.
main_start ==
    /\ pc = "start"
    /\ LET loaded == load_domains(file) IN
       IF loaded = LoadRaised
       THEN /\ pc' = "exited"
            /\ log' = [NewLog("init") EXCEPT !.done = TRUE, !.aborted = TRUE]
            /\ UNCHANGED <<domains, fired>>
       ELSE /\ pc' = "idle"
            /\ log' = [NewLog("init") EXCEPT !.done = TRUE]
            /\ domains' = loaded
            /\ fired' = [k \in DOMAIN loaded.data |-> loaded.data[k].alerts_sent]
    /\ UNCHANGED <<file, alert_days, slack_webhook, now, todo, watch>>

\* main returns: the process ends and another one is started later.
main_exit ==
    /\ pc = "idle"
    /\ pc' = "start"
    /\ domains' = EmptyStore
    /\ fired' = <<>>
    /\ UNCHANGED <<file, alert_days, slack_webhook, now, todo, log, watch>>

\* sys.exit(1) after an exception, else 0
ExitCode == IF log.aborted THEN 1 ELSE 0

\* What a process may find in place of domains.json
StartFiles ==
    { NoFile, Malformed,
      save_domains(Put(EmptyStore, <<"a">>,
          [NewRecord(Day(7), Datetime(0)) EXCEPT !.alerts_sent = <<AlertKey(30)>>])) }

InitStart ==
    /\ file \in StartFiles
    /\ domains = EmptyStore
    /\ fired = <<>>
    /\ alert_days = DefaultAlertDays
    /\ slack_webhook \in BOOLEAN
    /\ now = 0
    /\ pc = "start"
    /\ todo = <<>>
    /\ log = [NewLog("init") EXCEPT !.done = TRUE]
    /\ watch = WatchOff(TRUE)

NextStart ==
    \/ main_start
    \/ main_exit
    \/ \E raw \in RawNames : add_domain(raw) /\ UNCHANGED watch
    \/ \E raw \in RawNames : remove_domain(raw) /\ UNCHANGED watch
    \/ list_domains /\ UNCHANGED watch
    \/ check_all_domains_begin /\ UNCHANGED watch
    \/ check_all_domains_step /\ UNCHANGED watch

SpecStart == InitStart /\ [][NextStart]_vars

----------------------------------------------------------------------------
(* Continuous mode: run_continuous.  The job's due time is kept as the number
   of time.sleep(60) calls still to go, so that the loop can turn for ever
   while the clock of the records stays within MaxNow. *)

\* --interval, in sleeps of the loop
MaxInterval == 2
\* watch.passes counts the passes begun, and starts again at 1 after this many
MaxPasses == 2

\* Mutant: run_continuous without the initial self.check_all_domains()
run_continuous_NoInitialCheck(interval) ==
    /\ pc = "idle"
    /\ watch.at = "off"
    /\ watch.schedule
    /\ watch' = [watch EXCEPT !.at = "loop", !.interval = interval, !.wait = interval]
    /\ UNCHANGED <<domains, file, alert_days, slack_webhook, now, pc, todo, log, fired>>

\* run_continuous up to the loop: without the schedule package it raises and
\* main exits with status 1; else the job is scheduled and the first pass is
\* called at once.
run_continuous(interval) ==
    /\ pc = "idle"
    /\ watch.at = "off"
    /\ IF ~watch.schedule
       THEN /\ Abort(NewLog("run_continuous"))
            /\ watch' = [watch EXCEPT !.at = "exited"]
            /\ UNCHANGED <<alert_days, slack_webhook, now, fired>>
       ELSE /\ check_all_domains_begin
            /\ watch' = [watch EXCEPT !.at = "loop", !.interval = interval,
                                      !.wait = interval, !.passes = 1]

\* Mutant: the loop body runs once
AfterSleep_Once == "returned"

\* while True: after time.sleep(60) the loop turns again
AfterSleep == "loop"

\* schedule.run_pending(): runs the job when it is due and schedules it again
run_pending ==
    /\ pc = "idle"
    /\ watch.at = "loop"
    /\ IF watch.wait = 0
       THEN /\ check_all_domains_begin
            /\ watch' = [watch EXCEPT !.at = "sleep", !.wait = watch.interval,
                            !.passes = IF @ < MaxPasses THEN @ + 1 ELSE 1]
       ELSE /\ watch' = [watch EXCEPT !.at = "sleep"]
            /\ UNCHANGED <<domains, file, alert_days, slack_webhook, now, pc, todo, log, fired>>

\* time.sleep(60), entered once the job, if it ran, has returned
sleep ==
    /\ pc = "idle"
    /\ watch.at = "sleep"
    /\ watch' = [watch EXCEPT !.at = AfterSleep, !.slept = TRUE,
                              !.wait = IF @ > 0 THEN @ - 1 ELSE 0]
    /\ UNCHANGED <<domains, file, alert_days, slack_webhook, now, pc, todo, log, fired>>

\* The process is ended from outside (a signal), at any point of the loop.
terminate ==
    /\ watch.at \in {"loop", "sleep"}
    /\ Abort(log)
    /\ watch' = [watch EXCEPT !.at = "killed"]
    /\ UNCHANGED <<alert_days, slack_webhook, now, fired>>

\* Stores a --watch process may find in domains.json
WatchStores ==
    { EmptyStore,
      Put(EmptyStore, <<"a">>, NewRecord(Day(7), Datetime(0))),
      Put(Put(EmptyStore, <<"a">>, NewRecord(Day(7), Datetime(0))),
          <<"b">>, NewRecord(None, Datetime(0))) }

\* What the lookups of a --watch process return
WatchAnswers == { [kind |-> "error"], [kind |-> "date", at |-> Day(7)] }

\* One iteration of the for-loop of a pass made by the loop
watch_check_step == check_all_domains_iteration(WatchAnswers)

InitWatch ==
    /\ domains \in WatchStores
    /\ file = save_domains(domains)
    /\ fired = [k \in DOMAIN domains.data |-> <<>>]
    /\ alert_days = DefaultAlertDays
    /\ slack_webhook \in BOOLEAN
    /\ now = 0
    /\ pc = "idle"
    /\ todo = <<>>
    /\ log = [NewLog("init") EXCEPT !.done = TRUE]
    /\ watch \in { WatchOff(schedule) : schedule \in BOOLEAN }

NextWatch ==
    \/ Tick /\ UNCHANGED watch
    \/ \E interval \in 0..MaxInterval : run_continuous(interval)
    \/ watch_check_step /\ UNCHANGED watch
    \/ run_pending
    \/ sleep
    \/ terminate

\* One thread runs the loop: each of its steps is taken once it is reached
\* (taking it that every lookup and every POST returns or fails).
SpecWatch ==
    /\ InitWatch
    /\ [][NextWatch]_vars
    /\ WF_vars(watch_check_step /\ UNCHANGED watch)
    /\ WF_vars(run_pending)
    /\ WF_vars(sleep)

----------------------------------------------------------------------------
(* Auxiliary definitions of the properties *)

NoDuplicates(list) ==
    \A i, j \in 1..Len(list) : i # j => list[i] # list[j]

InPass == log.op = "check_all_domains"

\* The calls of send_slack_alert of the current operation that are for key k
NotesFor(lg, k) == { i \in 1..Len(lg.sent) : lg.sent[i].domain = k }

\* The domains check_domain has been called on in the current operation
ReportedDomains(lg) == [i \in 1..Len(lg.reported) |-> lg.reported[i].domain]

\* The step is one iteration of the for-loop that returned from check_domain
IterationStep ==
    /\ pc = "checking"
    /\ Len(log'.reported) = Len(log.reported) + 1

\* The result of check_domain in an iteration step, and the calls of
\* send_slack_alert the step made
StepResult == log'.reported[Len(log'.reported)]
StepNotes == SubSeq(log'.sent, Len(log.sent) + 1, Len(log'.sent))
StepKeys == [i \in 1..Len(StepNotes) |-> StepNotes[i].alert_key]

\* The thresholds of a list that are crossed and unsent, by position
Qualifying(thresholds, days_until, alerts_sent) ==
    { i \in 1..Len(thresholds) :
        /\ days_until <= thresholds[i]
        /\ ~InList(AlertKey(thresholds[i]), alerts_sent) }

\* What the claim says fires: the first qualifying threshold, if any
FirstQualifying(thresholds, days_until, alerts_sent) ==
    LET q == Qualifying(thresholds, days_until, alerts_sent) IN
    IF q = {} THEN <<>>
    ELSE <<AlertKey(thresholds[CHOOSE i \in q : \A j \in q : i <= j])>>

----------------------------------------------------------------------------
(* C1: the notifier is invoked at most once per domain and threshold id.  The
   ids handed to the notifier for a record never repeat (whether or not the
   expiration value changed in between), and a pass fed the alerts_sent list
   of the previous pass, with the same thresholds and days-until value, does
   not fire the id the previous pass fired. *)
C1_NoDuplicateAlert ==
    \A k \in DOMAIN fired :
        /\ NoDuplicates(fired[k])
        /\ \A d \in {1, 5, 7, 14, 30} :
             LET sent == domains.data[k].alerts_sent
                 first == AlertLoop(alert_days, d, sent)
                 second == AlertLoop(alert_days, d, sent \o first)
             IN \A i \in 1..Len(first) : ~InList(first[i], second)

\* A second pass over a domain that still crosses a threshold fired before
\* sends nothing for it.
C1_Witness ==
    /\ InPass /\ log.done /\ log.sent = <<>>
    /\ \E i \in 1..Len(log.reported) :
         /\ log.reported[i].days_until_expiration = <<7>>
         /\ fired[log.reported[i].domain] = <<"30_days", "14_days", "7_days">>

(* C2: within one pass each domain triggers at most one notification and gets
   at most one id added to alerts_sent, even when several thresholds are
   crossed and unsent: alerts_sent grows exactly by the ids notified. *)
C2_OneAlertPerDomainPerPass ==
    [][ /\ log'.op = "check_all_domains" =>
             \A k \in DOMAIN domains'.data : Cardinality(NotesFor(log', k)) <= 1
        /\ IterationStep =>
             /\ NoDuplicates(ReportedDomains(log'))
             /\ Len(StepNotes) <= 1
             /\ domains'.data[StepResult.domain].alerts_sent
                  = domains.data[StepResult.domain].alerts_sent \o StepKeys
      ]_vars

\* Seven days left with 30, 14 and 7 all unsent: only 30_days fires.
C2_Witness ==
    /\ InPass
    /\ alert_days = DefaultAlertDays
    /\ \E i \in 1..Len(log.sent) :
         /\ log.sent[i].days_until = 7
         /\ log.sent[i].alert_key = "30_days"
         /\ domains.data[log.sent[i].domain].alerts_sent = <<"30_days">>
         /\ Cardinality(Qualifying(alert_days, 7, <<>>)) = 3

(* C3: for every threshold list, every days-until value > 0 and every list of
   ids already sent, the id that fires in an iteration is that of the first
   threshold t, in configured order, with days_until <= t and "t_days" not
   already sent, and nothing fires when there is none; thresholds 30,14,7,1
   with 5 days left fire 30_days, and 14_days once 30_days was sent. *)
C3_FirstQualifyingFires ==
    [][ /\ IterationStep /\ StepResult.days_until_expiration # None
           /\ StepResult.days_until_expiration[1] > 0
           => StepKeys = FirstQualifying(alert_days,
                             StepResult.days_until_expiration[1],
                             domains.data[StepResult.domain].alerts_sent)
        /\ AlertLoop(DefaultAlertDays, 5, <<>>) = <<"30_days">>
        /\ AlertLoop(DefaultAlertDays, 5, <<"30_days">>) = <<"14_days">>
      ]_vars

\* 30,14,7,1 with 5 days left and 30_days already sent: 14_days has fired.
C3_Witness ==
    /\ InPass
    /\ alert_days = DefaultAlertDays
    /\ Len(log.sent) = 1
    /\ log.sent[1].days_until = 5
    /\ log.sent[1].alert_key = "14_days"
    /\ domains.data[log.sent[1].domain].alerts_sent = <<"30_days", "14_days">>

(* C4: a domain whose days-until value is not greater than 0 triggers no
   notification and its alerts_sent is left unchanged by the iteration,
   whatever the thresholds and alerts_sent are; with -3 days left nothing
   fires and the status is expired. *)
C4_NoAlertWhenNotPositive ==
    [][ /\ IterationStep /\ StepResult.days_until_expiration # None
           /\ StepResult.days_until_expiration[1] <= 0
           => /\ StepNotes = <<>>
              /\ domains'.data[StepResult.domain].alerts_sent
                   = domains.data[StepResult.domain].alerts_sent
              /\ fired' = fired
              /\ StepResult.days_until_expiration[1] < 0
                   => StepResult.status = "expired"
      ]_vars

\* A domain three days past expiration, every threshold unsent, was checked.
C4_Witness ==
    /\ InPass /\ log.done
    /\ log.sent = <<>>
    /\ Len(log.reported) = 1
    /\ log.reported[1].days_until_expiration = <<-3>>
    /\ log.reported[1].status = "expired"
    /\ domains.data[log.reported[1].domain].alerts_sent = <<>>
    /\ alert_days = DefaultAlertDays

(* C5: the status check_domain returns is one of unknown, expired, critical,
   warning, ok: unknown exactly when no expiration was obtained, otherwise
   expired iff days < 0, critical iff 0 <= days < 7, warning iff
   7 <= days < 30, ok iff days >= 30. *)
C5_StatusClassification ==
    \A i \in 1..Len(log.reported) :
        LET r == log.reported[i]
            d == r.days_until_expiration[1]
        IN
        /\ r.status \in {"unknown", "expired", "critical", "warning", "ok"}
        /\ r.status = "unknown" <=> log.lookups[i] = None
        /\ r.status = "unknown" <=> r.days_until_expiration = None
        /\ r.status # "unknown" =>
             /\ r.status = "expired" <=> d < 0
             /\ r.status = "critical" <=> (0 <= d /\ d < 7)
             /\ r.status = "warning" <=> (7 <= d /\ d < 30)
             /\ r.status = "ok" <=> d >= 30

\* One pass saw a domain at 7 days (warning) and another at 6 (critical).
C5_Witness ==
    /\ InPass /\ log.done
    /\ Len(log.reported) = 2
    /\ log.reported[1].days_until_expiration = <<7>>
    /\ log.reported[1].status = "warning"
    /\ log.reported[2].days_until_expiration = <<6>>
    /\ log.reported[2].status = "critical"

(* C6 as stated: a check_all_domains pass writes the store exactly once, after
   the last domain was processed, and not between two domains. *)
C6_Original ==
    /\ InPass /\ log.done =>
         /\ log.writes = 1
         /\ Len(log.reported) = Len(log.snapshot)
         /\ file = save_domains(domains)
    /\ InPass /\ ~log.done => log.writes = 0

(* C6, amended: a pass over a non-empty store writes the store exactly once,
   after the last domain was processed, and not between two domains; on an
   empty store check_all_domains returns without writing. *)
C6_OneWriteAfterNonEmptyPass ==
    /\ InPass /\ log.done /\ log.snapshot # <<>> =>
         /\ log.writes = 1
         /\ Len(log.reported) = Len(log.snapshot)
         /\ file = save_domains(domains)
    /\ InPass /\ log.done /\ log.snapshot = <<>> =>
         /\ log.writes = 0
         /\ domains = EmptyStore
    /\ InPass /\ ~log.done => log.writes = 0

\* A pass over two domains has completed with its single write.
C6_Witness ==
    /\ InPass /\ log.done
    /\ Len(log.snapshot) = 2
    /\ Len(log.reported) = 2
    /\ log.writes = 1

(* C7: when a threshold fires and the notifier fails or has no destination,
   the fired id is still recorded in the domain's alerts_sent, the rest of the
   pass is still processed, and the store written at the end of the pass
   holds the id. *)
C7_RecordedDespiteNotifierFailure ==
    InPass =>
      /\ ~log.aborted
      /\ ReportedDomains(log) \o todo = log.snapshot
      /\ ~log.done => pc = "checking" /\ todo # <<>>
      /\ \A i \in 1..Len(log.sent) :
           log.sent[i].outcome \in {"error", "skipped"} =>
             /\ InList(log.sent[i].alert_key,
                       domains.data[log.sent[i].domain].alerts_sent)
             /\ log.done =>
                  /\ log.writes = 1
                  /\ InList(log.sent[i].alert_key,
                            load_domains(file).data[log.sent[i].domain].alerts_sent)

\* The notifier failed on the first of two domains; the pass went on to the
\* second and was saved.
C7_Witness ==
    /\ InPass /\ log.done
    /\ Len(log.snapshot) = 2
    /\ Len(log.reported) = 2
    /\ \E i \in 1..Len(log.sent) :
         /\ log.sent[i].domain = log.snapshot[1]
         /\ log.sent[i].outcome = "error"

(* C8: when the lookup of a stored domain fails during a pass, last_checked is
   updated, the stored expiration and alerts_sent are left unchanged, the
   domain is reported as unknown and no notification is sent for it. *)
C8_LookupFailureFrame ==
    [][ /\ pc = "checking"
        /\ Len(log'.lookups) = Len(log.lookups) + 1
        /\ log'.lookups[Len(log'.lookups)] = None
        => LET k == Head(todo) IN
           /\ domains'.data[k].last_checked = IsoFormat(Datetime(now))
           /\ domains'.data[k].expiration = domains.data[k].expiration
           /\ domains'.data[k].alerts_sent = domains.data[k].alerts_sent
           /\ domains'.data[k].added = domains.data[k].added
           /\ IterationStep
           /\ StepResult.domain = k
           /\ StepResult.status = "unknown"
           /\ StepResult.days_until_expiration = None
           /\ log'.sent = log.sent
           /\ fired' = fired
      ]_vars

\* The lookup failed for a domain stored with 7 days left and nothing sent:
\* last_checked moved on, the expiration stayed, no alert went out.
C8_Witness ==
    /\ InPass
    /\ now = 1
    /\ log.sent = <<>>
    /\ \E i \in 1..Len(log.reported) :
         LET k == log.reported[i].domain IN
         /\ log.lookups[i] = None
         /\ log.reported[i].status = "unknown"
         /\ domains.data[k].expiration = IsoFormat(Day(7))
         /\ domains.data[k].alerts_sent = <<>>
         /\ domains.data[k].added = IsoFormat(Datetime(0))
         /\ domains.data[k].last_checked = IsoFormat(Datetime(1))

(* C9: in a pass over a non-empty store every domain present at the start is
   checked exactly once, whatever lookups and notifications fail, and the pass
   then completes and persists the store. *)
C9_EveryDomainCheckedOnce ==
    InPass /\ log.snapshot # <<>> =>
      /\ ~log.aborted
      /\ log.snapshot = domains.keys
      /\ NoDuplicates(log.snapshot)
      /\ ReportedDomains(log) \o todo = log.snapshot
      /\ Len(log.lookups) = Len(log.reported)
      /\ log.done <=> todo = <<>>
      /\ log.done => pc = "idle" /\ file = save_domains(domains)
      /\ ~log.done => pc = "checking"

\* The lookup failed for the first domain and the notifier for the second;
\* both were checked and the pass completed.
C9_Witness ==
    /\ InPass /\ log.done
    /\ Len(log.snapshot) = 2
    /\ ReportedDomains(log) = log.snapshot
    /\ log.lookups[1] = None
    /\ Len(log.sent) = 1
    /\ log.sent[1].domain = log.snapshot[2]
    /\ log.sent[1].outcome = "error"

(* C10: add_domain on a name whose normalized key is already in the store
   leaves the record untouched, performs no lookup and no write, and returns
   without error. *)
C10_DuplicateAddUntouched ==
    [][ \A raw \in RawNames :
          /\ log'.op = "add_domain"
          /\ Has(domains, Normalize(raw))
          /\ add_domain(raw)
          =>
            /\ domains' = domains
            /\ file' = file
            /\ fired' = fired
            /\ log'.lookups = <<>>
            /\ log'.writes = 0
            /\ log'.done /\ ~log'.aborted
      ]_vars

\* add_domain returned early on a record that had been checked and alerted
\* since it was added.
C10_Witness ==
    /\ log.op = "add_domain" /\ log.done
    /\ log.lookups = <<>>
    /\ log.writes = 0
    /\ now = 1
    /\ \E k \in DOMAIN domains.data :
         /\ domains.data[k].added = IsoFormat(Datetime(0))
         /\ domains.data[k].alerts_sent # <<>>

(* C11: store keys are always lowercase, whitespace-trimmed and unique; after
   add_domain(d) the store contains the key normalize(d), a new record
   starting with empty alerts_sent; after remove_domain(d) it does not contain
   normalize(d); names that differ only in case or surrounding whitespace
   address the same record in both operations. *)
C11_NormalizedUniqueKeys ==
    [][ /\ NoDuplicates(domains'.keys)
        /\ \A k \in DOMAIN domains'.data :
             /\ \A i \in 1..Len(k) : k[i] = Lower(k[i])
             /\ k # <<>> => ~IsSpace(k[1]) /\ ~IsSpace(k[Len(k)])
        /\ \A raw \in RawNames :
             /\ log'.op = "add_domain" /\ now' = now /\ add_domain(raw) =>
                  /\ Has(domains', Normalize(raw))
                  /\ ~Has(domains, Normalize(raw)) =>
                       domains'.data[Normalize(raw)].alerts_sent = <<>>
                  /\ \A other \in RawNames \ {raw} :
                       Normalize(other) = Normalize(raw) => add_domain(other)
             /\ log'.op = "remove_domain" /\ now' = now /\ remove_domain(raw) =>
                  /\ ~Has(domains', Normalize(raw))
                  /\ \A other \in RawNames \ {raw} :
                       Normalize(other) = Normalize(raw) => remove_domain(other)
      ]_vars

\* The record under the key "b" was just created, and only the name "B" can
\* have created it; the key "a" is there as well.
C11_Witness ==
    /\ log.op = "add_domain" /\ log.done
    /\ log.writes = 1
    /\ domains.keys = << <<"a">>, <<"b">> >>
    /\ domains.data[<<"b">>].alerts_sent = <<>>
    /\ \A raw \in RawNames : Normalize(raw) = <<"b">> => raw = <<"B">>
    /\ \E r1, r2 \in RawNames : r1 # r2 /\ Normalize(r1) = <<"a">> /\ Normalize(r2) = <<"a">>

(* C12: on entering continuous mode one full check pass is run at once,
   before any sleep and without waiting for the interval: the step that enters
   the loop begins a pass over every stored domain, and when the loop sleeps
   for the first time that pass has returned, every domain checked. *)
C12_InitialPassBeforeSleep ==
    [][ /\ watch.at = "off" /\ watch'.at = "loop" =>
             /\ log'.op = "check_all_domains"
             /\ log'.reported = <<>>
             /\ watch'.passes = 1
             /\ ~watch'.slept
             /\ now' = now
             /\ IF domains.keys = <<>>
                THEN log'.done
                ELSE pc' = "checking" /\ todo' = domains.keys
        /\ ~watch.slept /\ watch'.slept =>
             /\ watch.passes >= 1
             /\ log.op = "check_all_domains" /\ log.done /\ ~log.aborted
             /\ ReportedDomains(log) = domains.keys
             /\ domains.keys # <<>> => log.writes = 1 /\ file = save_domains(domains)
      ]_vars

\* The loop is about to sleep for the first time, the job not yet due again,
\* and the pass over both domains has been made and saved.
C12_Witness ==
    /\ watch.at = "sleep" /\ ~watch.slept
    /\ watch.interval = MaxInterval /\ watch.wait = MaxInterval
    /\ watch.passes = 1
    /\ pc = "idle"
    /\ log.op = "check_all_domains" /\ log.done
    /\ ReportedDomains(log) = << <<"a">>, <<"b">> >>
    /\ log.writes = 1

\* run_continuous is inside its loop
InLoop == watch.at \in {"loop", "sleep"}

\* A step the loop's thread can take
LoopStep == (watch_check_step /\ UNCHANGED watch) \/ run_pending \/ sleep

(* C15: continuous mode has no terminal state of its own.  Inside the loop a
   step of the loop is always possible, the loop is left only by the process
   being ended from outside, a pass that has begun returns and the loop goes
   to sleep, and after every pass counted another pass begins later. *)
C15_PassesRecur ==
    /\ [](InLoop => ENABLED LoopStep)
    /\ [][InLoop /\ ~InLoop' => watch'.at = "killed"]_vars
    /\ (InLoop /\ pc = "checking") ~> ((watch.at = "sleep" /\ pc = "idle") \/ watch.at = "killed")
    /\ \A n \in 1..MaxPasses :
         (InLoop /\ watch.passes = n) ~> ((InLoop /\ watch.passes # n) \/ watch.at = "killed")

\* The loop has slept, the interval has run out again and a further pass over
\* both domains is under way.
C15_Witness ==
    /\ watch.at = "sleep" /\ watch.slept
    /\ watch.interval = MaxInterval
    /\ watch.passes = 2
    /\ pc = "checking"
    /\ Len(log.reported) = 1 /\ Len(todo) = 1

(* C13: saving a store and loading the file again yields a store equal to the
   saved one: load(save(S)) = S, for every store the program can hold, whether
   or not it is the one on disk. *)
C13_SaveLoadRoundTrip ==
    /\ load_domains(save_domains(domains)) = domains
    /\ save_domains(load_domains(save_domains(domains))) = save_domains(domains)

\* A store in the middle of a pass, not yet saved: one expiration unknown
\* (null), one known, and an alert id in a list.
C13_Witness ==
    /\ pc = "checking"
    /\ domains.keys = << <<"a">>, <<"b">> >>
    /\ domains.data[<<"a">>].expiration # None
    /\ domains.data[<<"a">>].alerts_sent # <<>>
    /\ domains.data[<<"b">>].expiration = None
    /\ load_domains(file) # domains
    /\ load_domains(save_domains(domains)) = domains

\* domains.json exists and its text is not JSON
IsMalformed(f) == f.exists /\ ~f.json

(* C14: when the state file exists but is malformed, the process fails at
   startup with exit code 1 before executing any command, and the file is not
   written: no command ever runs on such a file and the file stays as it is. *)
C14_MalformedFileFailsAtStartup ==
    /\ [](IsMalformed(file) =>
            /\ pc \in {"start", "exited"}
            /\ pc = "exited" =>
                 /\ ExitCode = 1
                 /\ log.op = "init"
                 /\ log.lookups = <<>> /\ log.sent = <<>> /\ log.writes = 0)
    /\ [][ IsMalformed(file) =>
             /\ file' = file
             /\ pc = "start" => pc' = "exited" ]_vars

\* The process found a malformed file and has exited with status 1.
C14_Witness ==
    /\ file = Malformed
    /\ pc = "exited"
    /\ ExitCode = 1
    /\ log.op = "init" /\ log.writes = 0

\* list is a prefix of longer
IsPrefix(list, longer) ==
    /\ Len(list) <= Len(longer)
    /\ SubSeq(longer, 1, Len(list)) = list

(* C16: while a domain stays in the store its alerts_sent only grows: every
   step keeps the old list as a prefix of the new one, also when the
   expiration moves later (a renewal), and a pass never sends an id that is
   already in the list, so a renewed domain that comes near a threshold again
   is not alerted for it again. *)
C16_AlertsSentOnlyGrows ==
    [][ \A k \in DOMAIN domains.data \cap DOMAIN domains'.data :
          /\ IsPrefix(domains.data[k].alerts_sent, domains'.data[k].alerts_sent)
          /\ IterationStep /\ StepResult.domain = k =>
               \A i \in 1..Len(StepKeys) :
                   ~InList(StepKeys[i], domains.data[k].alerts_sent)
      ]_vars

\* The domain "a" was alerted at 30, 14 and 7 days, was then renewed to 30 days
\* from now, and the pass that found it so sent nothing: 30_days is in the list.
C16_Witness ==
    /\ InPass /\ log.done
    /\ log.reported # <<>>
    /\ log.reported[1].domain = <<"a">>
    /\ log.reported[1].days_until_expiration = <<30>>
    /\ domains.data[<<"a">>].expiration = IsoFormat(Day(30))
    /\ domains.data[<<"a">>].alerts_sent = <<AlertKey(30), AlertKey(14), AlertKey(7)>>
    /\ NotesFor(log, <<"a">>) = {}

(* C17: the added timestamp of a record is set when add_domain creates it and
   never changes afterwards: not by a check pass, not by adding the name
   again, not by listing. *)
C17_AddedImmutable ==
    [][ /\ \A k \in DOMAIN domains.data \cap DOMAIN domains'.data :
             domains'.data[k].added = domains.data[k].added
        /\ \A k \in DOMAIN domains'.data \ DOMAIN domains.data :
             domains'.data[k].added = IsoFormat(Datetime(now))
      ]_vars

\* The record was created at time 0 and has since been checked at time 1, and
\* its name has just been given to add_domain again: added is still time 0.
C17_Witness ==
    /\ log.op = "add_domain" /\ log.done
    /\ log.lookups = <<>> /\ log.writes = 0
    /\ now = 1
    /\ Has(domains, <<"a">>)
    /\ domains.data[<<"a">>].added = IsoFormat(Datetime(0))
    /\ domains.data[<<"a">>].last_checked = IsoFormat(Datetime(1))

\* The ids of the configured thresholds
ConfiguredKeys == { AlertKey(alert_days[i]) : i \in 1..Len(alert_days) }

(* C18: in every reachable state the alerts_sent of every stored domain holds
   only ids "t_days" of configured thresholds t and holds none twice, and it
   is the list of the notifications sent for the domain; so these are never
   more than the distinct configured thresholds. *)
C18_OnlyConfiguredIds ==
    \A k \in DOMAIN domains.data :
        /\ \A i \in 1..Len(domains.data[k].alerts_sent) :
               domains.data[k].alerts_sent[i] \in ConfiguredKeys
        /\ NoDuplicates(domains.data[k].alerts_sent)
        /\ fired[k] = domains.data[k].alerts_sent
        /\ Len(fired[k]) <= Cardinality({ alert_days[i] : i \in 1..Len(alert_days) })

\* The thresholds are 7,7: one distinct threshold, whose id has been sent, and
\* a later pass with the threshold crossed again sent nothing.
C18_Witness ==
    /\ alert_days = <<7, 7>>
    /\ InPass /\ log.done
    /\ log.reported[1].days_until_expiration = <<5>>
    /\ log.sent = <<>>
    /\ fired[<<"a">>] = <<"7_days">>
    /\ domains.data[<<"a">>].alerts_sent = <<"7_days">>

(* C19: whenever no operation is in progress, what domains.json holds is the
   store in memory, an absent file standing for the empty store; a process
   that has loaded its store differs from the file only in the middle of a
   check pass. *)
C19_FileMatchesStoreWhenIdle ==
    /\ pc = "idle" =>
         /\ load_domains(file) = domains
         /\ file.exists => file = save_domains(domains)
         /\ ~file.exists => domains = EmptyStore
    /\ pc = "checking" => log.op = "check_all_domains" /\ ~log.done

\* In the middle of a pass the store in memory is ahead of the file: the first
\* domain has been checked and alerted, the second is still to come.
C19_MidPass ==
    /\ pc = "checking"
    /\ Len(log.reported) = 1 /\ Len(todo) = 1
    /\ Len(log.sent) = 1
    /\ load_domains(file) # domains

\* After adds, a pass that alerted and a removal, nothing in progress: the
\* file holds the one record left, alert ids included.
C19_Witness ==
    /\ pc = "idle"
    /\ log.op = "remove_domain" /\ log.writes = 1
    /\ domains.keys = << <<"b">> >>
    /\ domains.data[<<"b">>].alerts_sent # <<>>
    /\ file.exists
    /\ load_domains(file) = domains

\* The ids of the thresholds crossed at days_until and not yet sent, each once,
\* in configured order
RECURSIVE Outstanding(_, _, _)
Outstanding(thresholds, days_until, alerts_sent) ==
    IF thresholds = <<>> THEN <<>>
    ELSE LET key == AlertKey(Head(thresholds)) IN
         IF days_until <= Head(thresholds) /\ ~InList(key, alerts_sent)
         THEN <<key>> \o Outstanding(Tail(thresholds), days_until, Append(alerts_sent, key))
         ELSE Outstanding(Tail(thresholds), days_until, alerts_sent)

\* What n passes in a row send for a domain found each time with days_until
\* days left: the alert loop run n times, each on the list the last one left
RECURSIVE ConsecutivePasses(_, _, _, _)
ConsecutivePasses(thresholds, days_until, alerts_sent, n) ==
    IF n = 0 THEN <<>>
    ELSE LET keys == AlertLoop(thresholds, days_until, alerts_sent) IN
         <<keys>> \o ConsecutivePasses(thresholds, days_until,
                                       Recorded(alerts_sent, keys, "posted"), n - 1)

\* Days-until values on both sides of every threshold
DaysSamples == {1, 2, 7, 8, 14, 15, 30, 31}

(* C20: when a domain has d > 0 days left and k configured thresholds t >= d
   are not yet in alerts_sent, the pass sends exactly the first of them in
   configured order and leaves k - 1; so k passes in a row at the same d send
   one each, in configured order, and the passes after them send nothing. *)
C20_OnePerPassInOrder ==
    [][ /\ IterationStep /\ StepResult.days_until_expiration # None
           /\ StepResult.days_until_expiration[1] > 0
           => LET d == StepResult.days_until_expiration[1]
                  before == Outstanding(alert_days, d, domains.data[StepResult.domain].alerts_sent)
                  after == Outstanding(alert_days, d, domains'.data[StepResult.domain].alerts_sent)
              IN IF before = <<>>
                 THEN StepKeys = <<>> /\ after = <<>>
                 ELSE StepKeys = <<Head(before)>> /\ after = Tail(before)
        /\ \A k \in DOMAIN domains.data : \A d \in DaysSamples :
             LET todo_k == Outstanding(alert_days, d, domains.data[k].alerts_sent)
                 sent_k == ConsecutivePasses(alert_days, d, domains.data[k].alerts_sent,
                                             Len(todo_k) + 2)
             IN /\ \A i \in 1..Len(todo_k) : sent_k[i] = <<todo_k[i]>>
                /\ sent_k[Len(todo_k) + 1] = <<>>
                /\ sent_k[Len(todo_k) + 2] = <<>>
      ]_vars

\* Thresholds 30,14,7,1 and a domain found with 5 days left pass after pass:
\* 30_days, 14_days and 7_days are in the list in that order and the pass just
\* made, again at 5 days, sent nothing.
C20_Witness ==
    /\ alert_days = DefaultAlertDays
    /\ InPass /\ log.done
    /\ log.reported[1].days_until_expiration = <<5>>
    /\ log.sent = <<>>
    /\ domains.data[<<"a">>].alerts_sent = <<"30_days", "14_days", "7_days">>
    /\ ConsecutivePasses(alert_days, 5, <<>>, 4) = << <<"30_days">>, <<"14_days">>, <<"7_days">>, <<>> >>

====
